---- MODULE Spec2Model ----
(***************************************************************************)
(* Model of src/Radio.py: the synthetic audience generator                 *)
(* (ReunionRadioAnalyzer._create_realistic_audience_data), the flattening  *)
(* of its nested dictionaries into a table (get_all_data), the fourth      *)
(* chart panel and the console trend printout, and the sequence of steps   *)
(* of main with its three file writes.                                     *)
(*                                                                         *)
(* Audience values are integers in hundredths of a percentage point        *)
(* (28.5 is 2850).  Python dictionaries and the DataFrame are sequences,   *)
(* because both keep insertion order and the code depends on it.  Year     *)
(* keys are the decimal strings str(year), modelled as sequences of digit  *)
(* characters.  Station names are written without accents.                 *)
(***************************************************************************)
EXTENDS Integers, Sequences, FiniteSets, TLC

\* ------------------------------------------------------------------ bounds
\* Number of initial states of the random source explored by Spec.
NumSeeds == 6
\* Largest standard-normal draw, in tenths of a standard deviation.
ZMax == 100
\* Resolution of a uniform draw: u / UGrid for u in 0..UGrid.
UGrid == 4

\* ------------------------------------------------------- program constants
RangeStart == 2002
RangeStop == 2026
DefaultStartYear == 2002
HitWestStartYear == 2005
MinAudience == 100
MaxAudience == 3500

\* ------------------------------------------------------------ dictionaries
\* A dict is a sequence of [key, val] items in insertion order.
DictKeys(d) == { d[i].key : i \in 1..Len(d) }

DictHas(d, k) == k \in DictKeys(d)

DictIndex(d, k) == CHOOSE i \in 1..Len(d) : d[i].key = k

DictGet(d, k) == d[DictIndex(d, k)].val

\* A defective d[k] = v that puts a new key first instead of last.
DictSetPrepend(d, k, v) ==
    IF DictHas(d, k)
    THEN [d EXCEPT ![DictIndex(d, k)].val = v]
    ELSE <<[key |-> k, val |-> v]>> \o d

\* d[k] = v: an existing key keeps its place, a new key goes last.
DictSet(d, k, v) ==
    IF DictHas(d, k)
    THEN [d EXCEPT ![DictIndex(d, k)].val = v]
    ELSE Append(d, [key |-> k, val |-> v])

\* ------------------------------------------------------------ str and int
DigitChar == <<"0", "1", "2", "3", "4", "5", "6", "7", "8", "9">>

DigitValue(c) == (CHOOSE i \in 1..10 : DigitChar[i] = c) - 1

RECURSIVE StrOf(_)
\* str(n) for a non-negative integer n.
StrOf(n) ==
    IF n < 10 THEN <<DigitChar[n + 1]>>
    ELSE Append(StrOf(n \div 10), DigitChar[(n % 10) + 1])

RECURSIVE IntOf(_)
\* int(s) for a string of decimal digits.
IntOf(s) ==
    IF Len(s) = 0 THEN 0
    ELSE 10 * IntOf(SubSeq(s, 1, Len(s) - 1)) + DigitValue(s[Len(s)])

RECURSIVE Range(_, _)
\* range(a, b) as a sequence.
Range(a, b) == IF a >= b THEN <<>> ELSE <<a>> \o Range(a + 1, b)

\* -------------------------------------------------------------- registries
\* A registry with one station left out.
RadiosWithoutHitWest ==
    << [key |-> "Reunion 1ere", val |-> [type |-> "Public", lancement |-> 1960, couleur |-> "#FF6B00"]],
       [key |-> "NRJ Reunion", val |-> [type |-> "Commercial", lancement |-> 1990, couleur |-> "#FF0000"]],
       [key |-> "Freedom", val |-> [type |-> "Commercial", lancement |-> 1982, couleur |-> "#0000FF"]],
       [key |-> "RCI", val |-> [type |-> "Commercial", lancement |-> 1981, couleur |-> "#800080"]],
       [key |-> "Radio Est", val |-> [type |-> "Associative", lancement |-> 1983, couleur |-> "#008000"]],
       [key |-> "Radio Kreol", val |-> [type |-> "Culturelle", lancement |-> 1995, couleur |-> "#FFD700"]],
       [key |-> "Radio Sun", val |-> [type |-> "Commercial", lancement |-> 1987, couleur |-> "#FFA500"]] >>

\* self.radios
Radios ==
    << [key |-> "Reunion 1ere", val |-> [type |-> "Public", lancement |-> 1960, couleur |-> "#FF6B00"]],
       [key |-> "NRJ Reunion", val |-> [type |-> "Commercial", lancement |-> 1990, couleur |-> "#FF0000"]],
       [key |-> "Freedom", val |-> [type |-> "Commercial", lancement |-> 1982, couleur |-> "#0000FF"]],
       [key |-> "RCI", val |-> [type |-> "Commercial", lancement |-> 1981, couleur |-> "#800080"]],
       [key |-> "Radio Est", val |-> [type |-> "Associative", lancement |-> 1983, couleur |-> "#008000"]],
       [key |-> "Radio Kreol", val |-> [type |-> "Culturelle", lancement |-> 1995, couleur |-> "#FFD700"]],
       [key |-> "Hit West", val |-> [type |-> "Commercial", lancement |-> 2005, couleur |-> "#FF1493"]],
       [key |-> "Radio Sun", val |-> [type |-> "Commercial", lancement |-> 1987, couleur |-> "#FFA500"]] >>

\* The local dict trends.  Each params dict holds one year key with the
\* baseline (hundredths), the slope per year (hundredths) and the
\* volatility (tenths).
Trends ==
    << [key |-> "Reunion 1ere", val |-> [base_key |-> StrOf(2002), base |-> 2850, trend |-> -25, volatility |-> 8]],
       [key |-> "NRJ Reunion", val |-> [base_key |-> StrOf(2002), base |-> 1680, trend |-> 15, volatility |-> 10]],
       [key |-> "Freedom", val |-> [base_key |-> StrOf(2002), base |-> 1420, trend |-> 10, volatility |-> 9]],
       [key |-> "RCI", val |-> [base_key |-> StrOf(2002), base |-> 1250, trend |-> -8, volatility |-> 7]],
       [key |-> "Radio Est", val |-> [base_key |-> StrOf(2002), base |-> 830, trend |-> 5, volatility |-> 6]],
       [key |-> "Radio Kreol", val |-> [base_key |-> StrOf(2002), base |-> 670, trend |-> 20, volatility |-> 8]],
       [key |-> "Hit West", val |-> [base_key |-> StrOf(2005), base |-> 450, trend |-> 35, volatility |-> 12]],
       [key |-> "Radio Sun", val |-> [base_key |-> StrOf(2002), base |-> 520, trend |-> 12, volatility |-> 7]] >>

\* ------------------------------------------------- the per-year computation
\* A loop that stops one year early.
YearRangeShort == Range(RangeStart, RangeStop - 1)

\* range(2002, 2026)
YearRange == Range(RangeStart, RangeStop)

\* start_year = 2002; if radio == 'Hit West': start_year = 2005
StartYearOf(radio) ==
    IF radio = "Hit West" THEN HitWestStartYear ELSE DefaultStartYear

\* A skip test that also drops the start year itself.
SkipYearInclusive(year, start_year) == year <= start_year

\* if year < start_year: continue
SkipYear(year, start_year) == year < start_year

\* years_passed = year - start_year
\* value = base_value + (trend * years_passed)
LinearValue(base, trend, year, start_year) ==
    base + trend * (year - start_year)

\* np.random.normal(loc, scale) for the standard-normal draw z (tenths of a
\* standard deviation); scale is in tenths, the result in hundredths.
Normal(loc, scale, z) == loc + scale * z

\* np.random.uniform(low, high) for the draw u / UGrid.
Uniform(low, high, u) == low + ((high - low) * u) \div UGrid

\* A shock table with the crisis in the wrong year.
ShockAmountWrongYear(year, u) ==
    IF year = 2009 THEN Uniform(-200, -100, u)
    ELSE IF year = 2020 THEN Uniform(200, 400, u)
    ELSE IF year = 2021 THEN Uniform(-100, 100, u)
    ELSE 0

\* The if / elif / elif chain on the year: the amount added to value.
ShockAmount(year, u) ==
    IF year = 2008 THEN Uniform(-200, -100, u)
    ELSE IF year = 2020 THEN Uniform(200, 400, u)
    ELSE IF year = 2021 THEN Uniform(-100, 100, u)
    ELSE 0

\* Whether the year's branch draws from the uniform source.
HasShock(year) == year \in {2008, 2020, 2021}

\* Rounding that sends every tie upwards.
Round1HalfUp(c, tie) ==
    LET lo == (c \div 10) * 10
    IN  IF c % 10 < 5 THEN lo ELSE lo + 10

\* round(value, 1) on hundredths.  Python rounds the binary value it is
\* given to the nearest tenth, a true tie to the even tenth.  A decimal tie
\* x.x5 is a true tie only when it is a binary fraction (x.25, x.75);
\* otherwise the float lies just above or just below it, and tie tells
\* which.
Round1(c, tie) ==
    LET lo == (c \div 10) * 10
        r == c % 10
    IN  IF r < 5 THEN lo
        ELSE IF r > 5 THEN lo + 10
        ELSE IF c % 25 = 0
             THEN (IF (c \div 10) % 2 = 0 THEN lo ELSE lo + 10)
             ELSE (IF tie THEN lo + 10 ELSE lo)

\* Whether round(value, 1) depends on the binary representation.
InexactTie(c) == c % 10 = 5 /\ c % 25 # 0

Min2(a, b) == IF a <= b THEN a ELSE b

Max2(a, b) == IF a >= b THEN a ELSE b

\* max(1.0, min(35.0, x))
Clamp(x) == Max2(MinAudience, Min2(MaxAudience, x))

\* A limit step that forgets to round.
BoundedNoRound(value, tie) == Clamp(value)

\* A limit step that forgets the upper limit.
BoundedNoUpper(value, tie) == Max2(MinAudience, Round1(value, tie))

\* value = max(1.0, min(35.0, round(value, 1)))
Bounded(value, tie) == Clamp(Round1(value, tie))

\* ------------------------------------------------------- the random source
\* The generator state after one draw.
NextRng(s) == (s * 61 + 17) % 1021

\* The standard-normal draw a generator state yields, in -ZMax..ZMax.
ZOf(s) == (s % (2 * ZMax + 1)) - ZMax

\* The uniform draw a generator state yields, in 0..UGrid.
UOf(s) == s % (UGrid + 1)

\* The side of an inexact decimal tie on which the drawn float lies.
TieOf(s) == (s \div 7) % 2 = 1

\* ------------------------------------------------------------ the table
\* Series.unique(): the distinct elements in order of first appearance.
Unique(s) ==
    LET first == { i \in 1..Len(s) : \A j \in 1..(i - 1) : s[j] # s[i] }
    IN  [ k \in 1..Cardinality(first) |->
            s[CHOOSE i \in first : Cardinality({ j \in first : j <= i }) = k] ]

\* df['Radio']
RadioColumn(df) == [i \in 1..Len(df) |-> df[i].Radio]

\* df[df['Radio'] == radio]: the matching rows, in table order.
RowsOf(df, radio) == SelectSeq(df, LAMBDA row : row.Radio = radio)

\* radio_data['Audience (%)'].max()
MaxAudienceOf(rows) ==
    CHOOSE m \in { rows[i].Audience : i \in 1..Len(rows) } :
        \A i \in 1..Len(rows) : rows[i].Audience <= m

\* The row get_all_data appends for one (radio, year, audience).
FlatRecord(radio, year_key, audience) ==
    [ Radio |-> radio,
      Type |-> DictGet(Radios, radio).type,
      Annee |-> IntOf(year_key),
      Audience |-> audience,
      Lancement |-> DictGet(Radios, radio).lancement,
      Couleur |-> DictGet(Radios, radio).couleur ]

RECURSIVE ChartTrendsOver(_, _)
\* Panel 4: for each station with more than one row, iloc[-1] - iloc[0].
ChartTrendsOver(df, names) ==
    IF Len(names) = 0 THEN <<>>
    ELSE LET rows == RowsOf(df, names[1])
             rest == ChartTrendsOver(df, Tail(names))
         IN  IF Len(rows) > 1
             THEN <<[ Radio |-> names[1],
                      Tendance |-> rows[Len(rows)].Audience - rows[1].Audience,
                      Type |-> rows[1].Type ]>> \o rest
             ELSE rest

ChartTrends(df) == ChartTrendsOver(df, Unique(RadioColumn(df)))

RECURSIVE ConsoleTrendsOver(_, _)
\* _display_statistics: for each station with more than one row,
\* end - iloc[0] where end is the column's max().
ConsoleTrendsOver(df, names) ==
    IF Len(names) = 0 THEN <<>>
    ELSE LET rows == RowsOf(df, names[1])
             rest == ConsoleTrendsOver(df, Tail(names))
         IN  IF Len(rows) > 1
             THEN <<[ Radio |-> names[1],
                      Tendance |-> MaxAudienceOf(rows) - rows[1].Audience ]>> \o rest
             ELSE rest

ConsoleTrends(df) == ConsoleTrendsOver(df, Unique(RadioColumn(df)))

\* --------------------------------------------------------------- the state
VARIABLES
    pc,              \* position in main and in the methods it calls
    rng,             \* state of numpy's global random source
    gi,              \* position of the station loop in trends.items()
    yi,              \* position of the year loop in range(2002, 2026)
    start_year,      \* local of the generator
    base_value,      \* local of the generator
    value,           \* local of the generator
    audience_data,   \* dict radio -> dict str(year) -> audience
    fi,              \* position of get_all_data's loop over audience_data
    fj,              \* position of its loop over one station's years
    all_data,        \* the rows appended so far; then df
    chart_trends,    \* rows of trends_df (panel 4)
    console_trends,  \* the trend lines printed by _display_statistics
    files,           \* how many times each output file has been written
    failure,         \* the exception that ended the run, or "none"
    out,             \* console lines and file writes, in order
    pt               \* one evaluation of the per-year computation

vars == << pc, rng, gi, yi, start_year, base_value, value, audience_data,
           fi, fj, all_data, chart_trends, console_trends, files, failure,
           out, pt >>

genVars == << gi, yi, start_year, base_value, value, audience_data >>

tableVars == << fi, fj, all_data >>

reportVars == << chart_trends, console_trends, files >>

PtIdle ==
    [ stage |-> "idle", radio |-> 1, year |-> RangeStart, linear |-> 0,
      noise |-> 0, value |-> 0, tie |-> FALSE, stored |-> 0 ]

MainInit ==
    /\ pc = "start"
    /\ gi = 1
    /\ yi = 1
    /\ start_year = DefaultStartYear
    /\ base_value = 0
    /\ value = 0
    /\ audience_data = <<>>
    /\ fi = 1
    /\ fj = 1
    /\ all_data = <<>>
    /\ chart_trends = <<>>
    /\ console_trends = <<>>
    /\ files = [png |-> 0, xlsx |-> 0, csv |-> 0]
    /\ failure = "none"
    /\ out = <<>>

Init ==
    /\ MainInit
    /\ rng \in 0..(NumSeeds - 1)
    /\ pt = PtIdle

\* ---------------------------------------------------------------- main
\* main: the two banner lines, then ReunionRadioAnalyzer().
Start ==
    /\ pc = "start"
    /\ out' = Append(out, "banner")
    /\ pc' = "gen_radio"
    /\ UNCHANGED << rng, genVars, tableVars, reportVars, failure, pt >>

\* for radio, params in trends.items(): the loop head and the lines up to
\* the year loop; at the end of the loop the constructor returns and main
\* calls get_all_data.
GenRadio ==
    /\ pc = "gen_radio"
    /\ IF gi > Len(Trends)
       THEN /\ pc' = "flatten"
            /\ UNCHANGED << genVars, failure >>
       ELSE LET radio == Trends[gi].key
                params == Trends[gi].val
                sy == StartYearOf(radio)
            IN  /\ audience_data' = DictSet(audience_data, radio, <<>>)
                /\ start_year' = sy
                /\ IF params.base_key = StrOf(sy)
                   THEN /\ base_value' = params.base
                        /\ yi' = 1
                        /\ pc' = "gen_year"
                        /\ UNCHANGED failure
                   ELSE /\ failure' = "KeyError"
                        /\ pc' = "crashed"
                        /\ UNCHANGED << base_value, yi >>
                /\ UNCHANGED << gi, value >>
    /\ UNCHANGED << rng, tableVars, reportVars, out, pt >>

\* for year in range(2002, 2026): the loop head, the skip and the linear
\* value.
GenYear ==
    /\ pc = "gen_year"
    /\ IF yi > Len(YearRange)
       THEN /\ gi' = gi + 1
            /\ pc' = "gen_radio"
            /\ UNCHANGED << yi, value >>
       ELSE IF SkipYear(YearRange[yi], start_year)
       THEN /\ yi' = yi + 1
            /\ UNCHANGED << pc, gi, value >>
       ELSE /\ value' = LinearValue(base_value, Trends[gi].val.trend,
                                    YearRange[yi], start_year)
            /\ pc' = "gen_noise"
            /\ UNCHANGED << gi, yi >>
    /\ UNCHANGED << rng, start_year, base_value, audience_data, tableVars,
                    reportVars, failure, out, pt >>

\* variation = np.random.normal(0, volatility); value += variation
GenNoise ==
    /\ pc = "gen_noise"
    /\ rng' = NextRng(rng)
    /\ value' = value + Normal(0, Trends[gi].val.volatility, ZOf(rng'))
    /\ pc' = "gen_shock"
    /\ UNCHANGED << gi, yi, start_year, base_value, audience_data, tableVars,
                    reportVars, failure, out, pt >>

\* The special events: one uniform draw in 2008, 2020 and 2021.
GenShock ==
    /\ pc = "gen_shock"
    /\ IF HasShock(YearRange[yi])
       THEN /\ rng' = NextRng(rng)
            /\ value' = value + ShockAmount(YearRange[yi], UOf(rng'))
       ELSE /\ value' = value + ShockAmount(YearRange[yi], 0)
            /\ UNCHANGED rng
    /\ pc' = "gen_store"
    /\ UNCHANGED << gi, yi, start_year, base_value, audience_data, tableVars,
                    reportVars, failure, out, pt >>

\* The limits and audience_data[radio][str(year)] = value.
GenStore ==
    /\ pc = "gen_store"
    /\ LET radio == Trends[gi].key
           v == Bounded(value, TieOf(rng))
       IN  /\ value' = v
           /\ audience_data' =
                  DictSet(audience_data, radio,
                          DictSet(DictGet(audience_data, radio),
                                  StrOf(YearRange[yi]), v))
    /\ yi' = yi + 1
    /\ pc' = "gen_year"
    /\ UNCHANGED << rng, gi, start_year, base_value, tableVars, reportVars,
                    failure, out, pt >>

\* get_all_data: one step of the nested loops; a station missing from
\* self.radios raises KeyError.  At the end the DataFrame is built.
Flatten ==
    /\ pc = "flatten"
    /\ IF fi > Len(audience_data)
       THEN /\ pc' = "preview"
            /\ UNCHANGED << tableVars, failure >>
       ELSE IF fj > Len(audience_data[fi].val)
       THEN /\ fi' = fi + 1
            /\ fj' = 1
            /\ UNCHANGED << pc, all_data, failure >>
       ELSE IF ~DictHas(Radios, audience_data[fi].key)
       THEN /\ failure' = "KeyError"
            /\ pc' = "crashed"
            /\ UNCHANGED tableVars
       ELSE /\ all_data' = Append(all_data,
                                  FlatRecord(audience_data[fi].key,
                                             audience_data[fi].val[fj].key,
                                             audience_data[fi].val[fj].val))
            /\ fj' = fj + 1
            /\ UNCHANGED << pc, fi, failure >>
    /\ UNCHANGED << rng, genVars, reportVars, out, pt >>

\* main prints the number of rows and df.head().
Preview ==
    /\ pc = "preview"
    /\ out' = Append(out, "preview")
    /\ pc' = "render"
    /\ UNCHANGED << rng, genVars, tableVars, reportVars, failure, pt >>

\* create_comprehensive_analysis up to tight_layout: the panels are drawn
\* in memory; panel 4 computes trends_df.
Render ==
    /\ pc = "render"
    /\ chart_trends' = ChartTrends(all_data)
    /\ pc' = "savefig"
    /\ UNCHANGED << rng, genVars, tableVars, console_trends, files, failure,
                    out, pt >>

\* plt.savefig: the write succeeds or raises, and nothing catches it.
SaveFig ==
    /\ pc = "savefig"
    /\ \E ok \in BOOLEAN :
          IF ok
          THEN /\ files' = [files EXCEPT !.png = @ + 1]
               /\ out' = Append(out, "png")
               /\ pc' = "show"
               /\ UNCHANGED failure
          ELSE /\ failure' = "png"
               /\ pc' = "crashed"
               /\ UNCHANGED << files, out >>
    /\ UNCHANGED << rng, genVars, tableVars, chart_trends, console_trends, pt >>

\* plt.show(), then self._display_statistics(df).
DisplayStatistics ==
    /\ pc = "show"
    /\ console_trends' = ConsoleTrends(all_data)
    /\ out' = Append(out, "stats")
    /\ pc' = "excel"
    /\ UNCHANGED << rng, genVars, tableVars, chart_trends, files, failure, pt >>

\* An export that catches the writer's exception and lets main go on.
ExportExcelCaught ==
    /\ pc = "excel"
    /\ \E ok \in BOOLEAN :
          IF ok
          THEN /\ files' = [files EXCEPT !.xlsx = @ + 1]
               /\ out' = out \o <<"xlsx", "xlsx_message">>
               /\ UNCHANGED failure
          ELSE /\ failure' = "xlsx"
               /\ UNCHANGED << files, out >>
    /\ pc' = "csv"
    /\ UNCHANGED << rng, genVars, tableVars, chart_trends, console_trends, pt >>

\* export_to_excel: the workbook is written or the writer raises.
ExportExcel ==
    /\ pc = "excel"
    /\ \E ok \in BOOLEAN :
          IF ok
          THEN /\ files' = [files EXCEPT !.xlsx = @ + 1]
               /\ out' = out \o <<"xlsx", "xlsx_message">>
               /\ pc' = "csv"
               /\ UNCHANGED failure
          ELSE /\ failure' = "xlsx"
               /\ pc' = "crashed"
               /\ UNCHANGED << files, out >>
    /\ UNCHANGED << rng, genVars, tableVars, chart_trends, console_trends, pt >>

\* df.to_csv and its message.
ToCsv ==
    /\ pc = "csv"
    /\ \E ok \in BOOLEAN :
          IF ok
          THEN /\ files' = [files EXCEPT !.csv = @ + 1]
               /\ out' = out \o <<"csv", "csv_message">>
               /\ pc' = "success"
               /\ UNCHANGED failure
          ELSE /\ failure' = "csv"
               /\ pc' = "crashed"
               /\ UNCHANGED << files, out >>
    /\ UNCHANGED << rng, genVars, tableVars, chart_trends, console_trends, pt >>

\* The last line of main.
Success ==
    /\ pc = "success"
    /\ out' = Append(out, "success")
    /\ pc' = "done"
    /\ UNCHANGED << rng, genVars, tableVars, reportVars, failure, pt >>

Next ==
    \/ Start
    \/ GenRadio
    \/ GenYear
    \/ GenNoise
    \/ GenShock
    \/ GenStore
    \/ Flatten
    \/ Preview
    \/ Render
    \/ SaveFig
    \/ DisplayStatistics
    \/ ExportExcel
    \/ ToCsv
    \/ Success

Spec == Init /\ [][Next]_vars

\* ------------------------------------------- the per-year computation alone
\* The standard-normal draws tried: every tenth of a standard deviation up
\* to ZMax, and one draw far beyond it on each side.
ZDraws == ((-ZMax)..ZMax) \cup {-(ZMax * ZMax), ZMax * ZMax}

\* The years of range(2002, 2026) the loop does not skip for a station.
Coverage(radio) ==
    { y \in { YearRange[i] : i \in 1..Len(YearRange) } :
        ~SkipYear(y, StartYearOf(radio)) }

\* One loop iteration for any station, any covered year and any draws.
PtInit ==
    /\ MainInit
    /\ rng = 0
    /\ \E r \in 1..Len(Trends) :
         \E y \in Coverage(Trends[r].key) :
            pt = [PtIdle EXCEPT !.stage = "linear", !.radio = r, !.year = y]

PtLinear ==
    /\ pt.stage = "linear"
    /\ LET params == Trends[pt.radio].val
           v == LinearValue(params.base, params.trend, pt.year,
                            StartYearOf(Trends[pt.radio].key))
       IN  pt' = [pt EXCEPT !.stage = "noise", !.linear = v, !.value = v]
    /\ UNCHANGED << pc, rng, genVars, tableVars, reportVars, failure, out >>

PtNoise ==
    /\ pt.stage = "noise"
    /\ \E z \in ZDraws :
         LET variation == Normal(0, Trends[pt.radio].val.volatility, z)
         IN  pt' = [pt EXCEPT !.stage = "shock", !.noise = variation,
                              !.value = @ + variation]
    /\ UNCHANGED << pc, rng, genVars, tableVars, reportVars, failure, out >>

PtShock ==
    /\ pt.stage = "shock"
    /\ \E u \in 0..UGrid :
         /\ HasShock(pt.year) \/ u = 0
         /\ pt' = [pt EXCEPT !.stage = "store",
                             !.value = @ + ShockAmount(pt.year, u)]
    /\ UNCHANGED << pc, rng, genVars, tableVars, reportVars, failure, out >>

PtStore ==
    /\ pt.stage = "store"
    /\ \E tie \in BOOLEAN :
         /\ InexactTie(pt.value) \/ ~tie
         /\ pt' = [pt EXCEPT !.stage = "stored", !.tie = tie,
                             !.stored = Bounded(pt.value, tie)]
    /\ UNCHANGED << pc, rng, genVars, tableVars, reportVars, failure, out >>

PtNext ==
    \/ PtLinear
    \/ PtNoise
    \/ PtShock
    \/ PtStore

PointSpec == PtInit /\ [][PtNext]_vars

\* ------------------------------------------------------------- properties
GenPcs == {"start", "gen_radio", "gen_year", "gen_noise", "gen_shock", "gen_store"}

FileFailures == {"png", "xlsx", "csv"}

\* The constructor has returned.
Constructed ==
    \/ pc \in {"flatten", "preview", "render", "savefig", "show", "excel",
               "csv", "success", "done"}
    \/ pc = "crashed" /\ failure \in FileFailures

\* get_all_data has returned the table.
TableBuilt ==
    \/ pc \in {"preview", "render", "savefig", "show", "excel", "csv",
               "success", "done"}
    \/ pc = "crashed" /\ failure \in FileFailures

\* Panel 4 has been computed.
Rendered ==
    \/ pc \in {"savefig", "show", "excel", "csv", "success", "done"}
    \/ pc = "crashed" /\ failure \in FileFailures

\* _display_statistics has printed.
StatsPrinted ==
    \/ pc \in {"excel", "csv", "success", "done"}
    \/ pc = "crashed" /\ failure \in {"xlsx", "csv"}

\* The start year the specification gives a station.
ClaimedStart(name) == IF name = "Hit West" THEN 2005 ELSE 2002

\* The audience stored for a station and a year.
StoredAudience(name, y) == DictGet(DictGet(audience_data, name), StrOf(y))

\* C1: every value the per-year computation stores lies in [1.0, 35.0] and
\* has at most one decimal digit, whatever the noise and shock draws were.
C1_StoredValueBounded ==
    pt.stage = "stored" =>
        /\ pt.stored >= 100
        /\ pt.stored <= 3500
        /\ pt.stored % 10 = 0

\* A stored value whose unrounded value lay far above the upper limit, and
\* was not a whole tenth.
C1_Witness ==
    /\ pt.stage = "stored"
    /\ pt.value > 4500
    /\ pt.value % 10 # 0
    /\ pt.stored = 3500

\* C2: after construction every station's year keys are exactly the years
\* from its start year (2005 for Hit West, 2002 otherwise) through 2025,
\* each once, and nothing else.
C2_YearCoverage ==
    Constructed =>
        /\ Len(audience_data) = Len(Trends)
        /\ \A i \in 1..Len(audience_data) :
             LET name == audience_data[i].key
                 data == audience_data[i].val
                 years == { IntOf(data[j].key) : j \in 1..Len(data) }
             IN  /\ name = Trends[i].key
                 /\ years = ClaimedStart(name)..2025
                 /\ Len(data) = 2025 - ClaimedStart(name) + 1
                 /\ \A j \in 1..Len(data) : data[j].key = StrOf(IntOf(data[j].key))

\* Construction is over, Hit West holds 21 years and RCI 24.
C2_Witness ==
    /\ pc = "flatten"
    /\ Len(DictGet(audience_data, "Hit West")) = 21
    /\ Len(DictGet(audience_data, "RCI")) = 24

RECURSIVE ClaimedRows(_)
\* The sum over the first n stations of 2025 - start_year + 1.
ClaimedRows(n) ==
    IF n = 0 THEN 0
    ELSE ClaimedRows(n - 1) + (2025 - ClaimedStart(Trends[n].key) + 1)

\* C3: the table has one row per generated (station, year) pair and no
\* other row, so its length is the sum over the stations of
\* 2025 - start_year + 1.
C3_RecordCount ==
    TableBuilt =>
        /\ Len(all_data) = ClaimedRows(Len(Trends))
        /\ \A i \in 1..Len(audience_data) :
             \A j \in 1..Len(audience_data[i].val) :
                Cardinality({ k \in 1..Len(all_data) :
                                /\ all_data[k].Radio = audience_data[i].key
                                /\ StrOf(all_data[k].Annee) = audience_data[i].val[j].key
                                /\ all_data[k].Audience = audience_data[i].val[j].val }) = 1
        /\ \A k \in 1..Len(all_data) :
              /\ DictHas(audience_data, all_data[k].Radio)
              /\ DictHas(DictGet(audience_data, all_data[k].Radio),
                         StrOf(all_data[k].Annee))

\* The table is complete and holds 189 rows.
C3_Witness ==
    /\ pc = "preview"
    /\ Len(all_data) = 189

\* C4: every station with generated data is in the station registry, the
\* lookup of get_all_data never fails, and every row carries the registry's
\* type, colour and launch year of its station.
C4_RegistryMatch ==
    /\ failure # "KeyError"
    /\ \A i \in 1..Len(audience_data) :
          \E k \in 1..Len(Radios) : Radios[k].key = audience_data[i].key
    /\ \A n \in 1..Len(all_data) :
          \E k \in 1..Len(Radios) :
             /\ Radios[k].key = all_data[n].Radio
             /\ Radios[k].val.type = all_data[n].Type
             /\ Radios[k].val.couleur = all_data[n].Couleur
             /\ Radios[k].val.lancement = all_data[n].Lancement

\* The whole table is built, with Hit West's rows carrying its registry entry.
C4_Witness ==
    /\ pc = "preview"
    /\ \E n \in 1..Len(all_data) :
          /\ all_data[n].Radio = "Hit West"
          /\ all_data[n].Type = "Commercial"
          /\ all_data[n].Lancement = 2005
          /\ all_data[n].Couleur = "#FF1493"

\* The station of C5, evaluated with zero noise in a year without a shock.
C5_Case(y) ==
    /\ pt.stage = "stored"
    /\ Trends[pt.radio].val.base = 2850
    /\ Trends[pt.radio].val.trend = -25
    /\ StartYearOf(Trends[pt.radio].key) = 2002
    /\ pt.noise = 0
    /\ pt.year = y

\* C5 as stated: value(2002) = 28.5, value(2003) = 28.3, value(2010) = 26.5.
C5_AsStated ==
    /\ C5_Case(2002) => pt.stored = 2850
    /\ C5_Case(2003) => pt.stored = 2830
    /\ C5_Case(2010) => pt.stored = 2650

\* C5 amended: value(2002) = 28.5, value(2003) = 28.2 (28.25 is a true tie
\* and round() takes it to the even tenth), value(2010) = 26.5, all within
\* [1.0, 35.0].
C5_ZeroNoiseScenario ==
    /\ C5_Case(2002) => pt.stored = 2850
    /\ C5_Case(2003) => pt.stored = 2820
    /\ C5_Case(2010) => pt.stored = 2650
    /\ \A y \in {2002, 2003, 2010} :
          C5_Case(y) => pt.stored >= 100 /\ pt.stored <= 3500

\* The 2003 value of the scenario has been computed from 28.25.
C5_Witness ==
    /\ C5_Case(2003)
    /\ pt.value = 2825

\* C6: the value before rounding and clamping is baseline + slope * (year -
\* start year) + noise, lowered by 1 to 2 points in 2008, raised by 2 to 4
\* points in 2020, changed by -1 to 1 point in 2021, and nothing else in
\* any other year, for every station.
C6_ShockYears ==
    pt.stage \in {"store", "stored"} =>
        LET name == Trends[pt.radio].key
            params == Trends[pt.radio].val
            d == pt.value - (pt.linear + pt.noise)
        IN  /\ pt.linear = params.base + params.trend * (pt.year - ClaimedStart(name))
            /\ pt.year = 2008 => d >= -200 /\ d <= -100
            /\ pt.year = 2020 => d >= 200 /\ d <= 400
            /\ pt.year = 2021 => d >= -100 /\ d <= 100
            /\ pt.year \notin {2008, 2020, 2021} => d = 0

\* Hit West in 2008 with a shock of -1.5 points.
C6_Witness ==
    /\ pt.stage = "stored"
    /\ Trends[pt.radio].key = "Hit West"
    /\ pt.year = 2008
    /\ pt.value - (pt.linear + pt.noise) = -150

\* C7: the output appears in the order banner, preview, PNG, statistics,
\* Excel, CSV, success, after generation and flattening; a failed write
\* ends the run, so no later file is written and the success message is not
\* printed; a run without failure writes each file exactly once.
C7_MainOrder ==
    LET order == << "banner", "preview", "png", "stats", "xlsx",
                    "xlsx_message", "csv", "csv_message", "success" >>
    IN  /\ Len(out) <= Len(order)
        /\ \A i \in 1..Len(out) : out[i] = order[i]
        /\ Len(out) >= 2 => Len(audience_data) = Len(Trends) /\ Len(all_data) > 0
        /\ pc \in GenPcs => Len(all_data) = 0
        /\ failure = "png" => files = [png |-> 0, xlsx |-> 0, csv |-> 0]
        /\ failure = "xlsx" => files = [png |-> 1, xlsx |-> 0, csv |-> 0]
        /\ failure = "csv" => files = [png |-> 1, xlsx |-> 1, csv |-> 0]
        /\ failure # "none" => pc = "crashed" /\ out[Len(out)] # "success"
        /\ files.png <= 1 /\ files.xlsx <= 1 /\ files.csv <= 1
        /\ pc = "done" =>
              /\ failure = "none"
              /\ files = [png |-> 1, xlsx |-> 1, csv |-> 1]
              /\ out = order

\* The Excel export failed after the PNG was written.
C7_Witness ==
    /\ pc = "crashed"
    /\ failure = "xlsx"
    /\ files.png = 1
    /\ out[Len(out)] = "stats"

\* C8: the stored value, computed by rounding and then clamping, equals
\* the value obtained by clamping and then rounding.
C8_RoundClampCommute ==
    pt.stage = "stored" => pt.stored = Round1(Clamp(pt.value), pt.tie)

\* A value below the lower limit that is not a whole tenth.
C8_Witness ==
    /\ pt.stage = "stored"
    /\ pt.value < 100
    /\ pt.value % 10 # 0
    /\ pt.stored = 100

\* C9 as stated: each printed trend is the station's 2025 value minus its
\* start-year value, the number panel 4 shows for it.
C9_ConsoleTrendIsStartToEnd ==
    StatsPrinted =>
        /\ Len(console_trends) = Len(chart_trends)
        /\ \A k \in 1..Len(console_trends) :
              LET name == console_trends[k].Radio
              IN  /\ console_trends[k].Tendance =
                        StoredAudience(name, 2025) - StoredAudience(name, ClaimedStart(name))
                  /\ chart_trends[k].Radio = name
                  /\ chart_trends[k].Tendance = console_trends[k].Tendance

\* C10: in the table each station's rows are adjacent and in strictly
\* increasing year order from its start year to 2025, and panel 4 shows for
\* every station its 2025 value minus its start-year value.
C10_TableOrder ==
    /\ TableBuilt =>
          \A i \in 1..Len(Trends) :
             LET name == Trends[i].key
                 idx == { k \in 1..Len(all_data) : all_data[k].Radio = name }
                 lo == CHOOSE k \in idx : \A m \in idx : k <= m
                 hi == CHOOSE k \in idx : \A m \in idx : k >= m
             IN  /\ idx # {}
                 /\ idx = lo..hi
                 /\ \A k \in lo..(hi - 1) : all_data[k].Annee < all_data[k + 1].Annee
                 /\ all_data[lo].Annee = ClaimedStart(name)
                 /\ all_data[hi].Annee = 2025
    /\ Rendered =>
          /\ Len(chart_trends) = Len(Trends)
          /\ \A k \in 1..Len(chart_trends) :
                LET name == chart_trends[k].Radio
                IN  /\ name = Trends[k].key
                    /\ chart_trends[k].Tendance =
                          StoredAudience(name, 2025) - StoredAudience(name, ClaimedStart(name))

\* Panel 4 is computed and shows a falling and a rising station.
C10_Witness ==
    /\ pc = "savefig"
    /\ \E k \in 1..Len(chart_trends) : chart_trends[k].Tendance < 0
    /\ \E k \in 1..Len(chart_trends) : chart_trends[k].Tendance > 0

====
